---------------------------- MODULE Spec2Model ----------------------------
(* Model of the voice session engine of AliceV1:                            *)
(*   services/voice-gemini/audio_loop.py   (class AudioLoop)                *)
(*   services/voice-gemini/server.py       (Socket.IO command handlers)     *)
(*   services/orchestrator/src/routers/smart_home.py (POST /control)        *)
(* One step of the model is the code an asyncio task runs between two       *)
(* suspension points (await of I/O, of a queue, of a sleep).                *)
EXTENDS Integers, Sequences, FiniteSets, TLC

(***************************************************************************)
(* Bounds of the model.                                                    *)
(***************************************************************************)
MaxLoops == 2        \* AudioLoop objects start_audio may create
MaxBatch == 2        \* function calls in one tool_call
MaxTextLen == 2      \* length of a cumulative transcript
\* Spec: the whole program, from the start of the server
MaxCmds == 2         \* commands of the client
MaxEvents == 1       \* responses the remote session delivers
MaxTurnEnds == 1     \* turns the remote session closes
MaxFrames == 1       \* frames the microphone delivers
MaxTime == 1         \* clock ticks (one tick is a quarter of a second)
MaxFaults == 1       \* failures the environment injects
\* SpecServer: the commands and the life of the sessions, without media
SrvCmds == 3
SrvTurnEnds == 1
SrvFaults == 1
\* SpecReceive: the Receive and Playback pipelines of a running session
RecvEvents == 2
RecvTurnEnds == 1
RecvFaults == 1
\* SpecTools: the tool dispatcher of a running session
ToolEvents == 1
ToolTurnEnds == 1
ToolFaults == 1
\* SpecCapture: the Capture and Send pipelines of a running session
CapFrames == 2
CapTime == 1
CapEvents == 1
CapTurnEnds == 1
CapCmds == 1
CapFaults == 1
\* SpecStop
StopFrames == 1
StopTurnEnds == 1
StopFaults == 1
\* SpecVad
VadFrames == 4
VadTime == 3
\* SpecFifo
FifoEvents == 3
FifoFrames == 2
FifoFaults == 1
\* SpecMute
MuteCmds == 2
MuteFrames == 2
MuteFaults == 1
\* SpecDispatch
DispatchEvents == 2
DispatchFrames == 1
\* SpecSpeaking
SpeakEvents == 2
SpeakTurnEnds == 2
SpeakFrames == 2
SpeakFaults == 1

(***************************************************************************)
(* Program constants.                                                      *)
(***************************************************************************)
VAD_THRESHOLD == 800
SILENCE_DURATION == 2    \* 0.5 s, in quarter seconds

\* Optional values: None, or Some(x)
None == <<>>

Some(x) == <<x>>

Loops == 1..MaxLoops

(***************************************************************************)
(* Texts: a transcript is a sequence of characters.                        *)
(***************************************************************************)
Alphabet == {"h", "n"}

TextsOfLen(n) == [1..n -> Alphabet]

Texts == UNION {TextsOfLen(n) : n \in 0..MaxTextLen}

\* str.startswith
startswith(t, p) == Len(p) <= Len(t) /\ SubSeq(t, 1, Len(p)) = p

\* t[n:]
slice_from(t, n) == SubSeq(t, n + 1, Len(t))

(***************************************************************************)
(* State.                                                                  *)
(***************************************************************************)
VARIABLES
    audio_loop,   \* server.py global: None or the current AudioLoop
    loop_task,    \* server.py global: None or the AudioLoop whose run() it is
    loops,        \* the AudioLoop objects created so far, by identity
    sio_out,      \* what the latest command handler emitted to the client
    now,          \* time.time(), in quarter seconds
    env           \* what the environment has done so far (counters)

vars == <<audio_loop, loop_task, loops, sio_out, now, env>>

\* An AudioLoop as __init__ leaves it, with the position of each of its tasks,
\* their locals, and what the object has shown to the outside.
NewLoop ==
    [ paused |-> FALSE,
      stop_event |-> FALSE,
      session |-> "None",                \* "None", "open" or "closed"
      audio_in_queue |-> <<>>,
      out_queue |-> <<>>,
      last_input_transcription |-> <<>>,
      last_output_transcription |-> <<>>,
      is_speaking |-> FALSE,
      is_user_speaking |-> FALSE,
      silence_start_time |-> None,
      \* task positions
      run |-> "none",
      send_pc |-> "none",
      listen_pc |-> "none",
      recv_pc |-> "none",
      play_pc |-> "none",
      cancelling |-> FALSE,              \* the TaskGroup has cancelled its tasks
      \* locals
      send_msg |-> None,
      play_data |-> None,
      response |-> None,                 \* the response Receive took last in this turn
      responses |-> 0,                   \* responses Receive has taken
      turns |-> 0,                       \* turns Receive has seen the end of
      outcome |-> None,                  \* what client.post did for the current call
      calls |-> <<>>,                    \* function_calls from the current one on
      result |-> <<>>,
      text_sends |-> 0,                  \* user_input sends in progress
      \* devices
      in_stream |-> "none",
      out_stream |-> "none",
      \* observations
      emitted |-> <<>>,                  \* sink events of the latest Receive step
      on_error_log |-> <<>>,
      sent |-> <<>>,                     \* inputs the session has received
      played |-> <<>>,                   \* frames written to the output device
      enqueued |-> <<>>,                 \* frames Capture put on out_queue
      calls_received |-> 0,
      calls_dispatched |-> 0 ]

\* What the environment has done, and what it may do at most (set by Init).
NewEnv(max) ==
    [ cmds |-> 0, cmd |-> "", text |-> <<>>, audio |-> 0, frames |-> 0, faults |-> 0,
      max |-> max ]

SpecMax ==
    [ cmds |-> MaxCmds, events |-> MaxEvents, turn_ends |-> MaxTurnEnds,
      frames |-> MaxFrames, faults |-> MaxFaults, time |-> MaxTime, responses |-> "plain" ]

Init ==
    /\ audio_loop = None
    /\ loop_task = None
    /\ loops = [l \in Loops |-> NewLoop]
    /\ sio_out = None
    /\ now = 0
    /\ env = NewEnv(SpecMax)

Created(l) == loops[l].run # "none"

\* asyncio.Task.done() of the task running loops[l].run()
task_done(l) == loops[l].run \in {"done", "failed"}

(***************************************************************************)
(* AudioLoop: small methods.                                               *)
(***************************************************************************)
\* AudioLoop.set_paused
set_paused(r, paused) == [r EXCEPT !.paused = paused]

\* Mutant of stop: the stop event is toggled.
stop_toggles(r) == [r EXCEPT !.stop_event = ~@]

\* AudioLoop.stop
stop(r) == [r EXCEPT !.stop_event = TRUE]

\* Mutant of clear_audio_queue: the newest frame is left on the queue.
clear_audio_queue_keeps_newest(q) == IF q = <<>> THEN q ELSE <<q[Len(q)]>>

\* Mutant of clear_audio_queue: one get_nowait() only.
clear_audio_queue_once(q) == IF q = <<>> THEN q ELSE Tail(q)

\* AudioLoop.clear_audio_queue: get_nowait() until the queue is empty
RECURSIVE clear_audio_queue(_)
clear_audio_queue(q) == IF q = <<>> THEN q ELSE clear_audio_queue(Tail(q))

(***************************************************************************)
(* Receive pipeline: transcripts.                                          *)
(***************************************************************************)
\* Mutant of transcript_delta: the prefix is cut without the startswith test.
transcript_delta_always_cut(transcript, last) == slice_from(transcript, Len(last))

\* The delta of a cumulative transcript against the text seen last
\* (audio_loop.py 279-281 and 293-295).
transcript_delta(transcript, last) ==
    IF startswith(transcript, last)
    THEN slice_from(transcript, Len(last))
    ELSE transcript

\* "if transcript and transcript != last" (audio_loop.py 278, 292)
transcript_is_new(transcript, last) ==
    /\ transcript # <<>>
    /\ transcript # last

on_transcription(r, sender, text) ==
    [r EXCEPT !.emitted = Append(@, [ev |-> "transcription", sender |-> sender, text |-> text])]

\* audio_loop.py 276-287: response.server_content.input_transcription
\* (a text of None behaves as the empty text)
input_transcription(r, transcript) ==
    IF transcript_is_new(transcript, r.last_input_transcription)
    THEN LET delta == transcript_delta(transcript, r.last_input_transcription)
             r1 == [r EXCEPT !.last_input_transcription = transcript]
         IN  IF delta # <<>>
             THEN on_transcription(
                      [r1 EXCEPT !.audio_in_queue = clear_audio_queue(@)],
                      "User", delta)
             ELSE r1
    ELSE r

\* audio_loop.py 290-300: response.server_content.output_transcription
output_transcription(r, transcript) ==
    IF transcript_is_new(transcript, r.last_output_transcription)
    THEN LET delta == transcript_delta(transcript, r.last_output_transcription)
             r1 == [r EXCEPT !.last_output_transcription = transcript]
         IN  IF delta # <<>>
             THEN on_transcription(r1, "Alice", delta)
             ELSE r1
    ELSE r

\* Mutant of turn_end: the output transcript is not reset.
turn_end_keeps_output(r) ==
    [r EXCEPT !.turns = @ + 1,
              !.response = None,
              !.is_speaking = FALSE,
              !.last_input_transcription = <<>>]

\* audio_loop.py 306-309: the end of a turn
turn_end(r) ==
    [r EXCEPT !.turns = @ + 1,
              !.response = None,
              !.is_speaking = FALSE,
              !.last_input_transcription = <<>>,
              !.last_output_transcription = <<>>]

(***************************************************************************)
(* Device control service: POST /api/smart-home/control.                   *)
(***************************************************************************)
\* KasaAgent.turn_on / turn_off / set_brightness / set_color: True when the
\* target resolves to a device and the device obeys, False otherwise (the
\* agent catches the device's exceptions itself).
kasa_result(device_ok) == device_ok

\* smart_home.py control_light: the HTTP response to a request.  The
\* HTTPException(400) of an unknown action is raised inside the try and is
\* re-raised as a 500 by "except Exception".
control_light(request, device_ok) ==
    IF request.action \in {"turn_on", "turn_off"}
    THEN [status_code |-> 200, success |-> kasa_result(device_ok), text |-> "body"]
    ELSE IF request.action = "set"
    THEN [status_code |-> 200,
          success |-> \/ (request.brightness # None /\ kasa_result(device_ok))
                      \/ (request.color # None /\ kasa_result(device_ok)),
          text |-> "body"]
    ELSE [status_code |-> 500, success |-> FALSE, text |-> "Unknown action"]

(***************************************************************************)
(* Tool dispatcher: AudioLoop._handle_tool_calls.                          *)
(***************************************************************************)
Fallback == <<"Verktyget ar inte tillgangligt.">>

SmartHomeArgs ==
    { [device |-> "lampa", action |-> "turn_on", brightness |-> None, color |-> None],
      [device |-> "lampa", action |-> "dance", brightness |-> None, color |-> None] }

\* The function calls the remote session may issue.
FunctionCalls ==
    {[name |-> "control_smart_home", args |-> a] : a \in SmartHomeArgs}
    \cup {[name |-> "web_search", args |-> [query |-> "vader"]],
          [name |-> "play_music", args |-> [query |-> "abba"]]}

\* What client.post may do: answer, or raise (transport error, timeout).
TransportErrors == {"ConnectError", "ReadTimeout"}

\* The json of the POST (audio_loop.py 333-338)
control_request(fc) ==
    [target |-> fc.args.device, action |-> fc.args.action,
     brightness |-> fc.args.brightness, color |-> fc.args.color]

\* audio_loop.py 341-344: the result for an HTTP response
result_of_response(fc, resp) ==
    IF resp.status_code = 200
    THEN <<"Klart! Enheten har ", fc.args.action, ".">>
    ELSE <<"Kunde inte styra enheten: ", resp.text>>

\* audio_loop.py 349-350: the result for an exception of the try block
result_of_exception(e) == <<"Fel vid verktygsanrop: ", e>>

\* audio_loop.py 346-347
result_of_web_search(fc) == <<"Soker efter: ", fc.args.query>>

\* audio_loop.py 353-356: the input sent back for a call
tool_result_input(fc, result) ==
    [kind |-> "tool", input |-> <<"Verktygsresultat for ", fc.name, ": ">> \o result,
     end_of_turn |-> TRUE]

\* Mutant of begin_tool_call: result is not set again for each call.
begin_tool_call_stale_result(r) ==
    LET fc == Head(r.calls)
        r1 == [r EXCEPT !.emitted = Append(@, [ev |-> "tool_call", name |-> fc.name]),
                        !.calls_dispatched = @ + 1,
                        !.outcome = None]
    IN  IF fc.name = "control_smart_home"
        THEN [r1 EXCEPT !.recv_pc = "post"]
        ELSE IF fc.name = "web_search"
        THEN [r1 EXCEPT !.result = <<"Soker efter: ", fc.args.query>>, !.recv_pc = "send"]
        ELSE [r1 EXCEPT !.recv_pc = "send"]

\* audio_loop.py 321-347: one iteration of "for fc in function_calls", up to
\* its first suspension: the await of client.post for control_smart_home,
\* the await of session.send otherwise.
begin_tool_call(r) ==
    LET fc == Head(r.calls)
        r1 == [r EXCEPT !.emitted = Append(@, [ev |-> "tool_call", name |-> fc.name]),
                        !.calls_dispatched = @ + 1,
                        !.outcome = None,
                        !.result = Fallback]
    IN  IF fc.name = "control_smart_home"
        THEN [r1 EXCEPT !.recv_pc = "post"]
        ELSE IF fc.name = "web_search"
        THEN [r1 EXCEPT !.result = result_of_web_search(fc), !.recv_pc = "send"]
        ELSE [r1 EXCEPT !.recv_pc = "send"]

\* Mutant of handle_tool_calls: the batch is worked through from its end.
handle_tool_calls_reversed(r, function_calls) ==
    IF function_calls = <<>>
    THEN r
    ELSE begin_tool_call(
             [r EXCEPT !.calls = [i \in 1..Len(function_calls) |->
                                     function_calls[Len(function_calls) + 1 - i]],
                       !.calls_received = @ + Len(function_calls)])

\* audio_loop.py 302-304 and 316-320: _handle_tool_calls(function_calls)
handle_tool_calls(r, function_calls) ==
    IF function_calls = <<>>
    THEN r
    ELSE begin_tool_call([r EXCEPT !.calls = function_calls,
                                   !.calls_received = @ + Len(function_calls)])

\* Mutant of post_returns: an exception of client.post is not caught in
\* _handle_tool_calls and ends receive_audio.
post_returns_uncaught(r, outcome) ==
    IF outcome.raised
    THEN [r EXCEPT !.outcome = Some(outcome),
                   !.on_error_log = Append(@, outcome.error),
                   !.recv_pc = "done"]
    ELSE [r EXCEPT !.outcome = Some(outcome),
                   !.result = IF outcome.response.status_code = 200
                              THEN <<"Klart! Enheten har ", Head(r.calls).args.action, ".">>
                              ELSE <<"Kunde inte styra enheten: ", outcome.response.text>>,
                   !.recv_pc = "send"]

\* client.post has answered or raised (audio_loop.py 331-344, 349-350)
post_returns(r, outcome) ==
    [r EXCEPT !.outcome = Some(outcome),
              !.result = IF outcome.raised
                         THEN result_of_exception(outcome.error)
                         ELSE result_of_response(Head(r.calls), outcome.response),
              !.recv_pc = "send"]

\* session.send of the result has returned: the next call of the batch, or
\* back to the async for of the turn.
result_sent(r) ==
    LET r1 == [r EXCEPT !.sent = Append(@, tool_result_input(Head(r.calls), r.result)),
                        !.calls = Tail(@)]
    IN  IF r1.calls = <<>>
        THEN [r1 EXCEPT !.recv_pc = "in_turn"]
        ELSE begin_tool_call(r1)

(***************************************************************************)
(* Receive pipeline: AudioLoop.receive_audio.                              *)
(***************************************************************************)
\* audio_loop.py 268-304: the body of "async for response in turn", up to its
\* first suspension.  data is the audio frame of the response, if any.
handle_response(r, response) ==
    LET r0 == [r EXCEPT !.emitted = <<>>,
                        !.response = Some(response),
                        !.responses = @ + 1]
        r1 == IF response.data # None
              THEN [r0 EXCEPT !.audio_in_queue = Append(@, response.data[1]),
                              !.is_speaking = TRUE]
              ELSE r0
        sc == response.server_content
        r2 == IF sc # None /\ sc[1].input_transcription # None
              THEN input_transcription(r1, sc[1].input_transcription[1])
              ELSE r1
        r3 == IF sc # None /\ sc[1].output_transcription # None
              THEN output_transcription(r2, sc[1].output_transcription[1])
              ELSE r2
    IN  handle_tool_calls(r3, response.tool_call)

\* Mutant of receive_failed: the exception is swallowed without on_error.
receive_failed_unreported(r, e) == [r EXCEPT !.recv_pc = "done"]

\* "except Exception as e" of receive_audio (audio_loop.py 311-314)
receive_failed(r, e) ==
    [r EXCEPT !.on_error_log = Append(@, e), !.recv_pc = "done"]

\* "while not self.stop_event.is_set()" followed by session.receive() and the
\* await of the first response (audio_loop.py 265-267)
receive_loop(r) ==
    IF r.stop_event
    THEN [r EXCEPT !.recv_pc = "done"]
    ELSE [r EXCEPT !.recv_pc = "in_turn"]

(***************************************************************************)
(* Capture pipeline: AudioLoop.listen_audio.                               *)
(***************************************************************************)
\* The rms values a captured frame may have.
RmsLevels == {VAD_THRESHOLD, VAD_THRESHOLD + 1}

\* audio_loop.py 243-254: the VAD update for a frame of the given rms at
\* time t = time.time()
vad_update(r, rms, t) ==
    IF rms > VAD_THRESHOLD
    THEN [r EXCEPT !.silence_start_time = None, !.is_user_speaking = TRUE]
    ELSE IF r.is_user_speaking
    THEN IF r.silence_start_time = None
         THEN [r EXCEPT !.silence_start_time = Some(t)]
         ELSE IF t - r.silence_start_time[1] > SILENCE_DURATION
         THEN [r EXCEPT !.is_user_speaking = FALSE, !.silence_start_time = None]
         ELSE r
    ELSE r

\* Mutant of listen_loop: the pause flag is not tested.
listen_loop_ignores_pause(r) ==
    IF r.stop_event
    THEN [r EXCEPT !.in_stream = "closed", !.listen_pc = "done"]
    ELSE [r EXCEPT !.listen_pc = "read"]

\* "while not self.stop_event.is_set()" with the pause check, up to the next
\* suspension (audio_loop.py 216-224), and the close after the loop (260)
listen_loop(r) ==
    IF r.stop_event
    THEN [r EXCEPT !.in_stream = "closed", !.listen_pc = "done"]
    ELSE IF r.paused
    THEN [r EXCEPT !.listen_pc = "sleep"]
    ELSE [r EXCEPT !.listen_pc = "read"]

\* Mutant of frame_read: the frame is put on the queue before the echo test.
frame_read_put_first(r, data, t) ==
    LET r1 == [r EXCEPT !.out_queue = Append(@, data), !.enqueued = Append(@, data)]
    IN  IF r.is_speaking
        THEN listen_loop(r1)
        ELSE listen_loop(vad_update(r1, data.rms, t))

\* audio_loop.py 226-254: audio_stream.read has returned data
frame_read(r, data, t) ==
    IF r.is_speaking
    THEN listen_loop(r)
    ELSE listen_loop(vad_update(
             [r EXCEPT !.out_queue = Append(@, data), !.enqueued = Append(@, data)],
             data.rms, t))

\* audio_loop.py 256-258: audio_stream.read has raised
read_failed(r) == [r EXCEPT !.listen_pc = "sleep"]

\* audio_loop.py 206-210: pya.open has raised OSError
input_open_failed(r, e) ==
    [r EXCEPT !.on_error_log = Append(@, <<"Microphone error: ", e>>),
              !.listen_pc = "done"]

\* audio_loop.py 197-205, then the loop
input_opened(r) == listen_loop([r EXCEPT !.in_stream = "open"])

(***************************************************************************)
(* Send pipeline: AudioLoop.send_realtime.                                 *)
(***************************************************************************)
\* Mutant of send_get: nothing is taken from the queue while paused.
send_get_unless_paused(r) ==
    IF r.paused
    THEN r
    ELSE [r EXCEPT !.send_msg = Some(Head(r.out_queue)),
                   !.out_queue = Tail(@),
                   !.send_pc = "sending"]

\* audio_loop.py 185-186: out_queue.get() has returned, session.send begins
send_get(r) ==
    [r EXCEPT !.send_msg = Some(Head(r.out_queue)),
              !.out_queue = Tail(@),
              !.send_pc = "sending"]

\* session.send(input=msg, end_of_turn=False) has returned
send_done(r) ==
    [r EXCEPT !.sent = Append(@, [kind |-> "audio", input |-> r.send_msg[1],
                                  end_of_turn |-> FALSE]),
              !.send_msg = None,
              !.send_pc = "get"]

\* session.send has raised: nothing catches it in send_realtime
send_failed(r) == [r EXCEPT !.send_pc = "failed"]

(***************************************************************************)
(* Playback pipeline: AudioLoop.play_audio.                                *)
(***************************************************************************)
\* "while not self.stop_event.is_set()" up to the wait_for, and the close
\* after the loop (audio_loop.py 372-377, 388)
play_loop(r) ==
    IF r.stop_event
    THEN [r EXCEPT !.out_stream = "closed", !.play_pc = "done"]
    ELSE [r EXCEPT !.play_pc = "wait"]

\* audio_loop.py 361-367
output_opened(r) == play_loop([r EXCEPT !.out_stream = "open"])

\* audio_loop.py 368-370
output_open_failed(r) == [r EXCEPT !.play_pc = "done"]

\* Mutant of play_get: the newest frame of the queue is taken.
play_get_newest(r) ==
    [r EXCEPT !.play_data = Some(r.audio_in_queue[Len(r.audio_in_queue)]),
              !.audio_in_queue = SubSeq(@, 1, Len(@) - 1),
              !.play_pc = "write"]

\* audio_loop.py 374-378: audio_in_queue.get() has returned, stream.write begins
play_get(r) ==
    [r EXCEPT !.play_data = Some(Head(r.audio_in_queue)),
              !.audio_in_queue = Tail(@),
              !.play_pc = "write"]

\* audio_loop.py 383-384
play_timeout(r) == play_loop(r)

\* audio_loop.py 378-381: stream.write has returned, on_audio_data(data)
play_written(r) ==
    play_loop([r EXCEPT !.played = Append(@, r.play_data[1]), !.play_data = None])

\* audio_loop.py 385-386: stream.write has raised
play_write_failed(r) == play_loop([r EXCEPT !.play_data = None])

(***************************************************************************)
(* AudioLoop.run and its TaskGroup.                                        *)
(***************************************************************************)
DefaultGreeting == <<"Hej! Jag ar redo att hjalpa dig. Vad kan jag gora for dig?">>

\* audio_loop.py 394-397: the queues are made, connect begins
run_begin(r) ==
    [r EXCEPT !.audio_in_queue = <<>>, !.out_queue = <<>>, !.run = "connecting"]

\* audio_loop.py 398-408: the session is open, the start message is being sent
run_connected(r) == [r EXCEPT !.session = "open", !.run = "greeting"]

\* the input of audio_loop.py 402-408
start_input(start_message) ==
    [kind |-> "start",
     input |-> IF start_message # None THEN start_message[1] ELSE DefaultGreeting,
     end_of_turn |-> TRUE]

\* audio_loop.py 411-415: the start message is sent, the four tasks are created
run_greeted(r, start_message) ==
    [r EXCEPT !.sent = Append(@, start_input(start_message)),
              !.send_pc = "get",
              !.listen_pc = "new",
              !.recv_pc = "new",
              !.play_pc = "opening",
              !.run = "group"]

SendEnded(r) == r.send_pc \in {"failed", "cancelled"}

ListenEnded(r) == r.listen_pc \in {"done", "failed", "cancelled"}

ReceiveEnded(r) == r.recv_pc \in {"done", "cancelled"}

PlayEnded(r) == r.play_pc \in {"done", "cancelled"}

TaskFailed(r) == r.send_pc = "failed" \/ r.listen_pc = "failed"

\* asyncio.TaskGroup: a task that raised makes the group cancel the others
group_abort(r) == [r EXCEPT !.cancelling = TRUE]

\* asyncio.TaskGroup.__aexit__ and the exit of "async with connect"
\* (audio_loop.py 411-417)
run_exit(r) ==
    [r EXCEPT !.session = "closed",
              !.run = IF TaskFailed(r) THEN "failed" ELSE "done"]

(***************************************************************************)
(* server.py: the command handlers, each up to its first await.            *)
(***************************************************************************)
\* Mutant of already_running: the test of loop_task.done() is inverted.
already_running_inverted ==
    /\ audio_loop # None
    /\ loop_task # None
    /\ loops[loop_task[1]].run \in {"done", "failed"}

\* "if audio_loop and loop_task and not loop_task.done()" (server.py 77)
already_running ==
    /\ audio_loop # None
    /\ loop_task # None
    /\ ~task_done(loop_task[1])

FreeLoops == {l \in Loops : ~Created(l)}

\* server.py 101-115: AudioLoop(...), the initial mute state, create_task(run())
new_audio_loop(muted) ==
    LET r == [NewLoop EXCEPT !.run = "scheduled"]
    IN  IF muted THEN set_paused(r, TRUE) ELSE r

\* server.py start_audio
start_audio(muted) ==
    IF already_running
    THEN /\ sio_out' = <<"status", "Already running">>
         /\ UNCHANGED <<audio_loop, loop_task, loops>>
    ELSE /\ FreeLoops # {}
         /\ LET l == CHOOSE x \in FreeLoops : \A y \in FreeLoops : x <= y
            IN  /\ loops' = [loops EXCEPT ![l] = new_audio_loop(muted)]
                /\ audio_loop' = Some(l)
                /\ loop_task' = Some(l)
         /\ sio_out' = <<"status", "Alice Started">>

\* server.py stop_audio
stop_audio ==
    IF audio_loop # None
    THEN /\ loops' = [loops EXCEPT ![audio_loop[1]] = stop(@)]
         /\ audio_loop' = None
         /\ loop_task' = None
         /\ sio_out' = <<"status", "Alice Stopped">>
    ELSE /\ sio_out' = None
         /\ UNCHANGED <<audio_loop, loop_task, loops>>

\* server.py pause_audio
pause_audio ==
    /\ IF audio_loop # None
       THEN /\ loops' = [loops EXCEPT ![audio_loop[1]] = set_paused(@, TRUE)]
            /\ sio_out' = <<"status", "Mic Muted">>
       ELSE /\ sio_out' = None
            /\ UNCHANGED loops
    /\ UNCHANGED <<audio_loop, loop_task>>

\* server.py resume_audio
resume_audio ==
    /\ IF audio_loop # None
       THEN /\ loops' = [loops EXCEPT ![audio_loop[1]] = set_paused(@, FALSE)]
            /\ sio_out' = <<"status", "Mic Active">>
       ELSE /\ sio_out' = None
            /\ UNCHANGED loops
    /\ UNCHANGED <<audio_loop, loop_task>>

\* The texts a client may send.
UserTexts == {<<>>, <<"hej">>}

\* server.py user_input, up to the await of session.send
user_input(text) ==
    /\ IF text = <<>>
       THEN /\ sio_out' = None
            /\ UNCHANGED loops
       ELSE IF audio_loop = None \/ loops[audio_loop[1]].session = "None"
       THEN /\ sio_out' = <<"error", "Not connected">>
            /\ UNCHANGED loops
       ELSE /\ loops' = [loops EXCEPT ![audio_loop[1]].text_sends = @ + 1]
            /\ sio_out' = None
    /\ UNCHANGED <<audio_loop, loop_task>>

\* session.send(input=text, end_of_turn=True) of user_input has returned
text_sent(r, text) ==
    [r EXCEPT !.sent = Append(@, [kind |-> "text", input |-> text, end_of_turn |-> TRUE]),
              !.text_sends = @ - 1]

\* ... or has raised
text_send_failed(r) == [r EXCEPT !.text_sends = @ - 1]

(***************************************************************************)
(* The environment's budget.                                               *)
(***************************************************************************)
RECURSIVE ResponsesUpTo(_)
ResponsesUpTo(n) == IF n = 0 THEN 0 ELSE loops[n].responses + ResponsesUpTo(n - 1)

RECURSIVE TurnsUpTo(_)
TurnsUpTo(n) == IF n = 0 THEN 0 ELSE loops[n].turns + TurnsUpTo(n - 1)

MayFail == env.faults < env.max.faults

Fault == env' = [env EXCEPT !.faults = @ + 1]

\* A client sends the command name; text is data['text'] of user_input.
CommandText(name, text) ==
    /\ env.cmds < env.max.cmds
    /\ env' = [env EXCEPT !.cmds = @ + 1, !.cmd = name, !.text = text]
    /\ UNCHANGED now

Command(name) == CommandText(name, <<>>)

\* A task of loops[l]'s TaskGroup may take a step.
Running(l) == loops[l].run = "group" /\ ~loops[l].cancelling

Update(l, r) == loops' = [loops EXCEPT ![l] = r]

Server == <<audio_loop, loop_task, sio_out>>

(***************************************************************************)
(* The responses of the remote session.                                    *)
(***************************************************************************)
OptText == {None} \cup {Some(t) : t \in Texts}

ServerContents ==
    {None} \cup {Some(sc) : sc \in [input_transcription : OptText,
                                    output_transcription : OptText]}

RECURSIVE BatchesOfLen(_)
BatchesOfLen(n) ==
    IF n = 0 THEN {<<>>}
    ELSE {Append(b, fc) : b \in BatchesOfLen(n - 1), fc \in FunctionCalls}

Batches == UNION {BatchesOfLen(n) : n \in 1..MaxBatch}

UserSaysH == Some([input_transcription |-> Some(<<"h">>), output_transcription |-> None])

\* Responses that carry audio and transcripts.
MediaResponses(data) ==
    [data : {None, data}, server_content : ServerContents, tool_call : {<<>>}]

\* Responses that carry a tool call, with or without audio and a user transcript.
ToolResponses(data) ==
    [data : {None, data}, server_content : {None, UserSaysH}, tool_call : Batches]

\* The fewest responses that reach every branch of the Receive pipeline.
PlainResponses(data) ==
    [data : {None, data}, server_content : {None, UserSaysH}, tool_call : {<<>>}]
    \cup [data : {None}, server_content : {None},
          tool_call : {<<fc>> : fc \in FunctionCalls}]

\* Responses that carry audio, a user transcript (barge-in), or both.
BargeResponses(data) ==
    [data : {None, data}, server_content : {None, UserSaysH}, tool_call : {<<>>}]

\* Responses that carry audio only.
AudioResponses(data) ==
    [data : {data}, server_content : {None}, tool_call : {<<>>}]

\* Responses that carry a batch of calls that are not rejected by the
\* device control service, with or without audio.
CallResponses(data) ==
    [data : {None, data}, server_content : {None},
     tool_call : {b \in Batches : \A i \in 1..Len(b) :
                     b[i].name = "control_smart_home" => b[i].args.action = "turn_on"}]

Responses(class, data) ==
    IF class = "media" THEN MediaResponses(data)
    ELSE IF class = "barge" THEN BargeResponses(data)
    ELSE IF class = "audio" THEN AudioResponses(data)
    ELSE IF class = "tools" THEN ToolResponses(data)
    ELSE IF class = "calls" THEN CallResponses(data)
    ELSE PlainResponses(data)

PostOutcomes(fc) ==
    {[raised |-> TRUE, error |-> e,
      response |-> [status_code |-> 0, success |-> FALSE, text |-> ""]] : e \in TransportErrors}
    \cup {[raised |-> FALSE, error |-> "",
           response |-> control_light(control_request(fc), ok)] : ok \in BOOLEAN}

(***************************************************************************)
(* Actions: the commands of a client.                                      *)
(***************************************************************************)
StartAudio == \E muted \in BOOLEAN : Command("start_audio") /\ start_audio(muted)

StopAudio == Command("stop_audio") /\ stop_audio

PauseAudio == Command("pause_audio") /\ pause_audio

ResumeAudio == Command("resume_audio") /\ resume_audio

UserInput == \E text \in UserTexts : CommandText("user_input", text) /\ user_input(text)

\* time passes
Tick == /\ now < env.max.time
        /\ now' = now + 1
        /\ UNCHANGED <<audio_loop, loop_task, loops, sio_out, env>>

(***************************************************************************)
(* Actions: run() and its TaskGroup.                                       *)
(***************************************************************************)
RunBegin(l) ==
    /\ loops[l].run = "scheduled"
    /\ Update(l, run_begin(loops[l]))
    /\ UNCHANGED <<Server, now, env>>

RunConnected(l) ==
    /\ loops[l].run = "connecting"
    /\ Update(l, run_connected(loops[l]))
    /\ UNCHANGED <<Server, now, env>>

\* client.aio.live.connect raises: run() ends with the exception
RunConnectFails(l) ==
    /\ loops[l].run = "connecting"
    /\ MayFail /\ Fault
    /\ Update(l, [loops[l] EXCEPT !.run = "failed"])
    /\ UNCHANGED <<Server, now>>

\* server.py 115 calls run() without a start message
RunGreeted(l) ==
    /\ loops[l].run = "greeting"
    /\ Update(l, run_greeted(loops[l], None))
    /\ UNCHANGED <<Server, now, env>>

\* the send of the start message raises: the session is closed, run() ends
RunGreetFails(l) ==
    /\ loops[l].run = "greeting"
    /\ MayFail /\ Fault
    /\ Update(l, [loops[l] EXCEPT !.session = "closed", !.run = "failed"])
    /\ UNCHANGED <<Server, now>>

GroupAbort(l) ==
    /\ Running(l)
    /\ TaskFailed(loops[l])
    /\ Update(l, group_abort(loops[l]))
    /\ UNCHANGED <<Server, now, env>>

RunExit(l) ==
    /\ loops[l].run = "group"
    /\ SendEnded(loops[l]) /\ ListenEnded(loops[l])
    /\ ReceiveEnded(loops[l]) /\ PlayEnded(loops[l])
    /\ Update(l, run_exit(loops[l]))
    /\ UNCHANGED <<Server, now, env>>

\* A cancelled task gets CancelledError at its await: no handler of the
\* pipelines catches it, so the task ends there.
Cancelled(l) ==
    /\ loops[l].run = "group" /\ loops[l].cancelling
    /\ \/ ~SendEnded(loops[l]) /\ Update(l, [loops[l] EXCEPT !.send_pc = "cancelled"])
       \/ ~ListenEnded(loops[l]) /\ Update(l, [loops[l] EXCEPT !.listen_pc = "cancelled"])
       \/ ~ReceiveEnded(loops[l]) /\ Update(l, [loops[l] EXCEPT !.recv_pc = "cancelled"])
       \/ ~PlayEnded(loops[l]) /\ Update(l, [loops[l] EXCEPT !.play_pc = "cancelled"])
    /\ UNCHANGED <<Server, now, env>>

(***************************************************************************)
(* Actions: Send pipeline and the sends of user_input.                     *)
(***************************************************************************)
SendGet(l) ==
    /\ Running(l) /\ loops[l].send_pc = "get"
    /\ loops[l].out_queue # <<>>
    /\ Update(l, send_get(loops[l]))
    /\ UNCHANGED <<Server, now, env>>

SendDone(l) ==
    /\ Running(l) /\ loops[l].send_pc = "sending"
    /\ Update(l, send_done(loops[l]))
    /\ UNCHANGED <<Server, now, env>>

SendFails(l) ==
    /\ Running(l) /\ loops[l].send_pc = "sending"
    /\ MayFail /\ Fault
    /\ Update(l, send_failed(loops[l]))
    /\ UNCHANGED <<Server, now>>

TextSent(l) ==
    /\ loops[l].text_sends > 0
    /\ loops[l].session = "open"
    /\ Update(l, text_sent(loops[l], <<"hej">>))
    /\ UNCHANGED <<Server, now, env>>

TextSendFails(l) ==
    /\ loops[l].text_sends > 0
    /\ \/ loops[l].session = "closed" /\ UNCHANGED env
       \/ loops[l].session = "open" /\ MayFail /\ Fault
    /\ Update(l, text_send_failed(loops[l]))
    /\ UNCHANGED <<Server, now>>

(***************************************************************************)
(* Actions: Capture pipeline.                                              *)
(***************************************************************************)
\* audio_loop.py 190-205: the default device is looked up, pya.open begins
ListenStart(l) ==
    /\ Running(l) /\ loops[l].listen_pc = "new"
    /\ Update(l, [loops[l] EXCEPT !.listen_pc = "opening"])
    /\ UNCHANGED <<Server, now, env>>

\* pya.get_default_input_device_info() raises (no input device): nothing
\* catches it in listen_audio
ListenNoDevice(l) ==
    /\ Running(l) /\ loops[l].listen_pc = "new"
    /\ MayFail /\ Fault
    /\ Update(l, [loops[l] EXCEPT !.listen_pc = "failed"])
    /\ UNCHANGED <<Server, now>>

InputOpened(l) ==
    /\ Running(l) /\ loops[l].listen_pc = "opening"
    /\ Update(l, input_opened(loops[l]))
    /\ UNCHANGED <<Server, now, env>>

InputOpenFails(l) ==
    /\ Running(l) /\ loops[l].listen_pc = "opening"
    /\ MayFail /\ Fault
    /\ Update(l, input_open_failed(loops[l], "OSError"))
    /\ UNCHANGED <<Server, now>>

\* audio_stream.read returns a frame.  The budget bounds the frames read
\* before the stop; the read in flight at the stop returns as well.
FrameRead(l) ==
    /\ Running(l) /\ loops[l].listen_pc = "read"
    /\ env.frames < env.max.frames \/ loops[l].stop_event
    /\ \E rms \in RmsLevels :
           Update(l, frame_read(loops[l], [id |-> env.frames + 1, rms |-> rms], now))
    /\ env' = [env EXCEPT !.frames = @ + 1]
    /\ UNCHANGED <<Server, now>>

ReadFails(l) ==
    /\ Running(l) /\ loops[l].listen_pc = "read"
    /\ MayFail /\ Fault
    /\ Update(l, read_failed(loops[l]))
    /\ UNCHANGED <<Server, now>>

\* asyncio.sleep(0.1) has returned (audio_loop.py 218-219, 258)
ListenWakes(l) ==
    /\ Running(l) /\ loops[l].listen_pc = "sleep"
    /\ Update(l, listen_loop(loops[l]))
    /\ UNCHANGED <<Server, now, env>>

(***************************************************************************)
(* Actions: Receive pipeline and the tool dispatcher.                      *)
(***************************************************************************)
ReceiveStart(l) ==
    /\ Running(l) /\ loops[l].recv_pc = "new"
    /\ Update(l, receive_loop(loops[l]))
    /\ UNCHANGED <<Server, now, env>>

ReceiveResponse(l) ==
    /\ Running(l) /\ loops[l].recv_pc = "in_turn"
    /\ ResponsesUpTo(MaxLoops) < env.max.events
    /\ \E response \in Responses(env.max.responses, Some(env.audio + 1)) :
          /\ Update(l, handle_response(loops[l], response))
          /\ env' = [env EXCEPT !.audio = IF response.data # None THEN @ + 1 ELSE @]
    /\ UNCHANGED <<Server, now>>

\* the turn is exhausted (audio_loop.py 306-309, then 265-267)
ReceiveTurnEnd(l) ==
    /\ Running(l) /\ loops[l].recv_pc = "in_turn"
    /\ TurnsUpTo(MaxLoops) < env.max.turn_ends
    /\ Update(l, receive_loop(turn_end(loops[l])))
    /\ UNCHANGED <<Server, now, env>>

\* iterating the turn raises
ReceiveFails(l) ==
    /\ Running(l) /\ loops[l].recv_pc = "in_turn"
    /\ MayFail /\ Fault
    /\ Update(l, receive_failed(loops[l], "ConnectionClosed"))
    /\ UNCHANGED <<Server, now>>

PostReturns(l) ==
    /\ Running(l) /\ loops[l].recv_pc = "post"
    /\ \E outcome \in PostOutcomes(Head(loops[l].calls)) :
           Update(l, post_returns(loops[l], outcome))
    /\ UNCHANGED <<Server, now, env>>

ResultSent(l) ==
    /\ Running(l) /\ loops[l].recv_pc = "send"
    /\ Update(l, result_sent(loops[l]))
    /\ UNCHANGED <<Server, now, env>>

\* session.send of a tool result raises: the exception leaves
\* _handle_tool_calls and is caught by receive_audio
ResultSendFails(l) ==
    /\ Running(l) /\ loops[l].recv_pc = "send"
    /\ MayFail /\ Fault
    /\ Update(l, receive_failed(loops[l], "ConnectionClosed"))
    /\ UNCHANGED <<Server, now>>

(***************************************************************************)
(* Actions: Playback pipeline.                                             *)
(***************************************************************************)
OutputOpened(l) ==
    /\ Running(l) /\ loops[l].play_pc = "opening"
    /\ Update(l, output_opened(loops[l]))
    /\ UNCHANGED <<Server, now, env>>

OutputOpenFails(l) ==
    /\ Running(l) /\ loops[l].play_pc = "opening"
    /\ MayFail /\ Fault
    /\ Update(l, output_open_failed(loops[l]))
    /\ UNCHANGED <<Server, now>>

PlayGet(l) ==
    /\ Running(l) /\ loops[l].play_pc = "wait"
    /\ loops[l].audio_in_queue # <<>>
    /\ Update(l, play_get(loops[l]))
    /\ UNCHANGED <<Server, now, env>>

PlayTimeout(l) ==
    /\ Running(l) /\ loops[l].play_pc = "wait"
    /\ loops[l].audio_in_queue = <<>>
    /\ loops[l].stop_event
    /\ Update(l, play_timeout(loops[l]))
    /\ UNCHANGED <<Server, now, env>>

PlayWritten(l) ==
    /\ Running(l) /\ loops[l].play_pc = "write"
    /\ Update(l, play_written(loops[l]))
    /\ UNCHANGED <<Server, now, env>>

PlayWriteFails(l) ==
    /\ Running(l) /\ loops[l].play_pc = "write"
    /\ MayFail /\ Fault
    /\ Update(l, play_write_failed(loops[l]))
    /\ UNCHANGED <<Server, now>>

(***************************************************************************)
(* The specification.                                                      *)
(***************************************************************************)
Next ==
    \/ StartAudio \/ StopAudio \/ PauseAudio \/ ResumeAudio \/ UserInput
    \/ Tick
    \/ \E l \in Loops :
        \/ RunBegin(l) \/ RunConnected(l) \/ RunConnectFails(l)
        \/ RunGreeted(l) \/ RunGreetFails(l)
        \/ GroupAbort(l) \/ Cancelled(l) \/ RunExit(l)
        \/ SendGet(l) \/ SendDone(l) \/ SendFails(l)
        \/ TextSent(l) \/ TextSendFails(l)
        \/ ListenStart(l) \/ ListenNoDevice(l) \/ InputOpened(l) \/ InputOpenFails(l)
        \/ FrameRead(l) \/ ReadFails(l) \/ ListenWakes(l)
        \/ ReceiveStart(l) \/ ReceiveResponse(l) \/ ReceiveTurnEnd(l) \/ ReceiveFails(l)
        \/ PostReturns(l) \/ ResultSent(l) \/ ResultSendFails(l)
        \/ OutputOpened(l) \/ OutputOpenFails(l)
        \/ PlayGet(l) \/ PlayTimeout(l) \/ PlayWritten(l) \/ PlayWriteFails(l)

Spec == Init /\ [][Next]_vars

(***************************************************************************)
(* A session in progress: the state run() reaches once the start message   *)
(* is sent and the four tasks are created (start_audio, then               *)
(* audio_loop.py 394-415).                                                 *)
(***************************************************************************)
RunningLoop == run_greeted(run_connected(run_begin(new_audio_loop(FALSE))), None)

InitRunning(max) ==
    /\ audio_loop = Some(1)
    /\ loop_task = Some(1)
    /\ loops = [l \in Loops |-> IF l = 1 THEN RunningLoop ELSE NewLoop]
    /\ sio_out = <<"status", "Alice Started">>
    /\ now = 0
    /\ env = NewEnv(max)

(***************************************************************************)
(* SpecReceive: the Receive pipeline with the tool dispatcher, and the     *)
(* Playback pipeline that shares audio_in_queue with it.                   *)
(***************************************************************************)
ReceiveMax ==
    [ cmds |-> 0, events |-> RecvEvents, turn_ends |-> RecvTurnEnds,
      frames |-> 0, faults |-> RecvFaults, time |-> 0, responses |-> "media" ]

InitReceive == InitRunning(ReceiveMax)

NextReceive ==
    \E l \in Loops :
        \/ ReceiveStart(l) \/ ReceiveResponse(l) \/ ReceiveTurnEnd(l) \/ ReceiveFails(l)
        \/ OutputOpened(l) \/ PlayGet(l) \/ PlayWritten(l)

SpecReceive == InitReceive /\ [][NextReceive]_vars

(***************************************************************************)
(* SpecTools: the Receive pipeline when the remote session issues tool     *)
(* calls.                                                                  *)
(***************************************************************************)
ToolsMax ==
    [ cmds |-> 0, events |-> ToolEvents, turn_ends |-> ToolTurnEnds,
      frames |-> 0, faults |-> ToolFaults, time |-> 0, responses |-> "tools" ]

InitTools == InitRunning(ToolsMax)

NextTools ==
    \E l \in Loops :
        \/ ReceiveStart(l) \/ ReceiveResponse(l) \/ ReceiveTurnEnd(l) \/ ReceiveFails(l)
        \/ PostReturns(l) \/ ResultSent(l) \/ ResultSendFails(l)
        \/ OutputOpened(l) \/ PlayGet(l) \/ PlayWritten(l)

SpecTools == InitTools /\ [][NextTools]_vars

(***************************************************************************)
(* SpecCapture: the Capture and Send pipelines, with the Receive pipeline  *)
(* that sets the speaking flag and the commands that pause and stop.       *)
(***************************************************************************)
CaptureMax ==
    [ cmds |-> CapCmds, events |-> CapEvents, turn_ends |-> CapTurnEnds,
      frames |-> CapFrames, faults |-> CapFaults, time |-> CapTime,
      responses |-> "audio" ]

InitCapture == InitRunning(CaptureMax)

NextCapture ==
    \/ StopAudio \/ PauseAudio \/ ResumeAudio
    \/ Tick
    \/ \E l \in Loops :
        \/ ListenStart(l) \/ InputOpened(l) \/ InputOpenFails(l)
        \/ FrameRead(l) \/ ReadFails(l) \/ ListenWakes(l)
        \/ SendGet(l) \/ SendDone(l)
        \/ ReceiveStart(l) \/ ReceiveResponse(l) \/ ReceiveTurnEnd(l)

SpecCapture == InitCapture /\ [][NextCapture]_vars

(***************************************************************************)
(* SpecServer: the commands of the client and the life of the sessions     *)
(* they create, from the start of the server; the remote sessions are      *)
(* silent and the microphone delivers nothing.                             *)
(***************************************************************************)
ServerMax ==
    [ cmds |-> SrvCmds, events |-> 0, turn_ends |-> SrvTurnEnds,
      frames |-> 0, faults |-> SrvFaults, time |-> 0, responses |-> "plain" ]

InitServer ==
    /\ audio_loop = None
    /\ loop_task = None
    /\ loops = [l \in Loops |-> NewLoop]
    /\ sio_out = None
    /\ now = 0
    /\ env = NewEnv(ServerMax)

NextServer ==
    \/ StartAudio \/ StopAudio \/ PauseAudio \/ ResumeAudio \/ UserInput
    \/ \E l \in Loops :
        \/ RunBegin(l) \/ RunConnected(l) \/ RunConnectFails(l)
        \/ RunGreeted(l) \/ RunGreetFails(l)
        \/ GroupAbort(l) \/ Cancelled(l) \/ RunExit(l)
        \/ TextSent(l) \/ TextSendFails(l)
        \/ ListenStart(l) \/ ListenNoDevice(l) \/ InputOpened(l) \/ ListenWakes(l)
        \/ ReceiveStart(l) \/ ReceiveTurnEnd(l)
        \/ OutputOpened(l) \/ PlayTimeout(l)

SpecServer == InitServer /\ [][NextServer]_vars

(***************************************************************************)
(* SpecStop: a running session that is stopped, under fair scheduling of   *)
(* the tasks of the event loop.  The remote endpoint, the client and the   *)
(* faults are under no obligation to act.                                  *)
(***************************************************************************)
StopMax ==
    [ cmds |-> 1, events |-> 0, turn_ends |-> StopTurnEnds,
      frames |-> StopFrames, faults |-> StopFaults, time |-> 0,
      responses |-> "audio" ]

InitStop == InitRunning(StopMax)

\* What the event loop and the devices do on their own.
TaskStep(l) ==
    \/ GroupAbort(l) \/ Cancelled(l) \/ RunExit(l)
    \/ SendGet(l) \/ SendDone(l)
    \/ ListenStart(l) \/ InputOpened(l) \/ FrameRead(l) \/ ListenWakes(l)
    \/ ReceiveStart(l)
    \/ OutputOpened(l) \/ PlayTimeout(l)

NextStop ==
    \/ StopAudio
    \/ \E l \in Loops :
        \/ TaskStep(l)
        \/ SendFails(l) \/ ReadFails(l) \/ ReceiveTurnEnd(l)

SpecStop ==
    /\ InitStop /\ [][NextStop]_vars
    /\ \A l \in Loops : WF_vars(TaskStep(l))

(***************************************************************************)
(* SpecVad: the Capture pipeline alone, reading frames as time passes.     *)
(***************************************************************************)
VadMax ==
    [ cmds |-> 0, events |-> 0, turn_ends |-> 0,
      frames |-> VadFrames, faults |-> 0, time |-> VadTime, responses |-> "audio" ]

InitVad == InitRunning(VadMax)

NextVad ==
    \/ Tick
    \/ \E l \in Loops : ListenStart(l) \/ InputOpened(l) \/ FrameRead(l)

SpecVad == InitVad /\ [][NextVad]_vars

(***************************************************************************)
(* SpecFifo: the four pipelines of a running session with both queues in   *)
(* use, barge-in, failing sends and device writes, and the stop command.   *)
(***************************************************************************)
FifoMax ==
    [ cmds |-> 1, events |-> FifoEvents, turn_ends |-> 0,
      frames |-> FifoFrames, faults |-> FifoFaults, time |-> 0,
      responses |-> "barge" ]

InitFifo == InitRunning(FifoMax)

NextFifo ==
    \/ StopAudio
    \/ \E l \in Loops :
        \/ GroupAbort(l) \/ Cancelled(l) \/ RunExit(l)
        \/ ListenStart(l) \/ InputOpened(l) \/ FrameRead(l)
        \/ SendGet(l) \/ SendDone(l) \/ SendFails(l)
        \/ ReceiveStart(l) \/ ReceiveResponse(l)
        \/ OutputOpened(l) \/ PlayGet(l) \/ PlayTimeout(l)
        \/ PlayWritten(l) \/ PlayWriteFails(l)

SpecFifo == InitFifo /\ [][NextFifo]_vars

(***************************************************************************)
(* SpecMute: Capture and Send of a running session that was started muted  *)
(* or not, with the pause and resume commands.                             *)
(***************************************************************************)
MuteMax ==
    [ cmds |-> MuteCmds, events |-> 0, turn_ends |-> 0,
      frames |-> MuteFrames, faults |-> MuteFaults, time |-> 0,
      responses |-> "audio" ]

\* A loop started with data['muted'] (server.py 110-112), once its tasks run.
MutedLoop == run_greeted(run_connected(run_begin(new_audio_loop(TRUE))), None)

InitMute ==
    /\ audio_loop = Some(1)
    /\ loop_task = Some(1)
    /\ \E r \in {RunningLoop, MutedLoop} :
           loops = [l \in Loops |-> IF l = 1 THEN r ELSE NewLoop]
    /\ sio_out = <<"status", "Alice Started">>
    /\ now = 0
    /\ env = NewEnv(MuteMax)

NextMute ==
    \/ PauseAudio \/ ResumeAudio
    \/ \E l \in Loops :
        \/ ListenStart(l) \/ InputOpened(l)
        \/ FrameRead(l) \/ ReadFails(l) \/ ListenWakes(l)
        \/ SendGet(l) \/ SendDone(l)

SpecMute == InitMute /\ [][NextMute]_vars

(***************************************************************************)
(* SpecDispatch: the tool dispatcher of a running session at work on       *)
(* batches of calls while Capture, Send and Playback run.                  *)
(***************************************************************************)
DispatchMax ==
    [ cmds |-> 0, events |-> DispatchEvents, turn_ends |-> 0,
      frames |-> DispatchFrames, faults |-> 0, time |-> 0, responses |-> "calls" ]

InitDispatch == InitRunning(DispatchMax)

NextDispatch ==
    \E l \in Loops :
        \/ ListenStart(l) \/ InputOpened(l) \/ FrameRead(l)
        \/ SendGet(l) \/ SendDone(l)
        \/ ReceiveStart(l) \/ ReceiveResponse(l)
        \/ PostReturns(l) \/ ResultSent(l)
        \/ OutputOpened(l) \/ PlayGet(l) \/ PlayWritten(l)

SpecDispatch == InitDispatch /\ [][NextDispatch]_vars

(***************************************************************************)
(* SpecSpeaking: Receive taking audio responses while Capture and Send     *)
(* run, under fair scheduling of the tasks and a remote endpoint that      *)
(* ends every turn it has begun.  The stream may raise at any time.        *)
(***************************************************************************)
SpeakingMax ==
    [ cmds |-> 0, events |-> SpeakEvents, turn_ends |-> SpeakTurnEnds,
      frames |-> SpeakFrames, faults |-> SpeakFaults, time |-> 0,
      responses |-> "audio" ]

InitSpeaking == InitRunning(SpeakingMax)

NextSpeaking ==
    \E l \in Loops :
        \/ ListenStart(l) \/ InputOpened(l) \/ FrameRead(l)
        \/ SendGet(l) \/ SendDone(l)
        \/ ReceiveStart(l) \/ ReceiveResponse(l)
        \/ ReceiveTurnEnd(l) \/ ReceiveFails(l)

SpecSpeaking ==
    /\ InitSpeaking /\ [][NextSpeaking]_vars
    /\ \A l \in Loops :
          /\ WF_vars(ReceiveStart(l))
          /\ WF_vars(ReceiveTurnEnd(l))
          /\ WF_vars(ListenStart(l) \/ InputOpened(l) \/ FrameRead(l))
          /\ WF_vars(SendGet(l) \/ SendDone(l))

(***************************************************************************)
(* Properties.                                                             *)
(***************************************************************************)
\* The transcription events of one sender among the sink events of the
\* latest Receive step.
TranscriptionsBy(r, sender) ==
    SelectSeq(r.emitted, LAMBDA e : e.ev = "transcription" /\ e.sender = sender)

Transcription(sender, text) == [ev |-> "transcription", sender |-> sender, text |-> text]

\* This step is the Receive pipeline of l taking a response.
TookResponse(l) == loops'[l].responses = loops[l].responses + 1

\* This step is the Receive pipeline of l reaching the end of a turn.
TurnEnded(l) == loops'[l].turns = loops[l].turns + 1

\* The text of the transcription event of a response (empty when it has none).
InputText(response) ==
    IF response.server_content # None
       /\ response.server_content[1].input_transcription # None
    THEN response.server_content[1].input_transcription[1]
    ELSE <<>>

OutputText(response) ==
    IF response.server_content # None
       /\ response.server_content[1].output_transcription # None
    THEN response.server_content[1].output_transcription[1]
    ELSE <<>>

Suffixes(t) == {SubSeq(t, k, Len(t)) : k \in 1..(Len(t) + 1)}

\* t with the prefix last stripped when t starts with last, else all of t.
ExpectedDelta(t, last) ==
    IF \E d \in Suffixes(t) : last \o d = t
    THEN CHOOSE d \in Suffixes(t) : last \o d = t
    ELSE t

\* What a transcription event with text t does to one direction, in this step.
Diffed(l, sender, t, last, last_after) ==
    IF t = <<>> \/ t = last
    THEN /\ TranscriptionsBy(loops'[l], sender) = <<>>
         /\ last_after = last
    ELSE /\ TranscriptionsBy(loops'[l], sender) = <<Transcription(sender, ExpectedDelta(t, last))>>
         /\ last_after = t

\* C1: on a transcription event with text t, for each direction: nothing is
\* emitted and last is unchanged when t is empty or equals last; otherwise
\* exactly one event is emitted, with t stripped of the prefix last when t
\* starts with last and all of t when it does not, and last becomes t.
C1_TranscriptDiffing ==
    [][\A l \in Loops : TookResponse(l) =>
        LET response == loops'[l].response[1]
        IN  /\ Diffed(l, "User", InputText(response),
                      loops[l].last_input_transcription,
                      loops'[l].last_input_transcription)
            /\ Diffed(l, "Alice", OutputText(response),
                      loops[l].last_output_transcription,
                      loops'[l].last_output_transcription)]_vars

\* "h" then "hn" has emitted "n"; and "h" then "n" has emitted all of "n".
C1_Witness ==
    \E l \in Loops :
        /\ loops[l].last_input_transcription = <<"h", "n">>
        /\ TranscriptionsBy(loops[l], "User") = <<Transcription("User", <<"n">>)>>
        /\ loops[l].last_output_transcription = <<"n">>
        /\ TranscriptionsBy(loops[l], "Alice") = <<Transcription("Alice", <<"n">>)>>
        /\ loops[l].responses = 2

\* The response of this step carries an input transcription with a non-empty delta.
Interrupts(l) ==
    /\ TookResponse(l)
    /\ LET t == InputText(loops'[l].response[1])
           last == loops[l].last_input_transcription
       IN  t # <<>> /\ t # last /\ ExpectedDelta(t, last) # <<>>

\* C2: when Receive processes an input transcription with a non-empty
\* delta, the inbound queue is empty right after, whatever it held and
\* whatever audio the same response carried, and exactly one User
\* transcription event with the delta is emitted.
C2_Interruption ==
    [][\A l \in Loops : Interrupts(l) =>
        /\ loops'[l].audio_in_queue = <<>>
        /\ TranscriptionsBy(loops'[l], "User") =
               <<Transcription("User",
                     ExpectedDelta(InputText(loops'[l].response[1]),
                                   loops[l].last_input_transcription))>>]_vars

\* Two frames were received, none was played or is being played, and the
\* queue is empty after a User transcription: both were cleared at once.
C2_Witness ==
    \E l \in Loops :
        /\ env.audio = 2
        /\ loops[l].played = <<>> /\ loops[l].play_data = None
        /\ loops[l].audio_in_queue = <<>>
        /\ TranscriptionsBy(loops[l], "User") # <<>>

\* C3 (as claimed): right after Receive has processed an input
\* transcription with a non-empty delta, the speaking flag is false.
C3_InterruptionResetsSpeaking ==
    [][\A l \in Loops : Interrupts(l) => ~loops'[l].is_speaking]_vars

\* C5: at the end of every turn the speaking flag is false and both last
\* texts are empty; and the first response of the next turn emits the full
\* text of each non-empty transcription it carries.
C5_TurnBoundaryReset ==
    [][\A l \in Loops :
        /\ TurnEnded(l) =>
              /\ ~loops'[l].is_speaking
              /\ loops'[l].last_input_transcription = <<>>
              /\ loops'[l].last_output_transcription = <<>>
        /\ (TookResponse(l) /\ loops[l].turns > 0 /\ loops[l].response = None) =>
              LET response == loops'[l].response[1]
              IN  /\ InputText(response) # <<>> =>
                         TranscriptionsBy(loops'[l], "User") =
                             <<Transcription("User", InputText(response))>>
                  /\ OutputText(response) # <<>> =>
                         TranscriptionsBy(loops'[l], "Alice") =
                             <<Transcription("Alice", OutputText(response))>>]_vars

\* A turn that received audio has ended, and a response of the next turn
\* has emitted the whole of "hn".
C5_Witness ==
    \E l \in Loops :
        /\ loops[l].turns = 1 /\ loops[l].responses = 2 /\ env.audio = 1
        /\ ~loops[l].is_speaking
        /\ loops[l].response # None
        /\ loops[l].last_output_transcription = <<"h", "n">>
        /\ TranscriptionsBy(loops[l], "Alice") = <<Transcription("Alice", <<"h", "n">>)>>

\* This step is the Capture pipeline of l getting a frame from the device.
ReadFrame(l) == loops[l].listen_pc = "read" /\ env'.frames = env.frames + 1

\* C4: a frame Capture reads while the speaking flag is true is put on no
\* queue and leaves the VAD state unchanged, and the outbound queue does not
\* grow in any step through which the flag stays true.
C4_EchoSuppression ==
    [][\A l \in Loops :
        /\ (ReadFrame(l) /\ loops[l].is_speaking) =>
              /\ loops'[l].enqueued = loops[l].enqueued
              /\ loops'[l].out_queue = loops[l].out_queue
              /\ loops'[l].is_user_speaking = loops[l].is_user_speaking
              /\ loops'[l].silence_start_time = loops[l].silence_start_time
        /\ (loops[l].is_speaking /\ loops'[l].is_speaking) =>
              Len(loops'[l].out_queue) <= Len(loops[l].out_queue)]_vars

\* The microphone has delivered a frame that was put on no queue, while the
\* speaking flag is still set.
C4_Witness ==
    \E l \in Loops :
        /\ env.frames = 1
        /\ loops[l].enqueued = <<>>
        /\ loops[l].is_speaking
        /\ loops[l].listen_pc = "read"

KnownTools == {"control_smart_home", "web_search"}

ToolResults(r) == SelectSeq(r.sent, LAMBDA m : m.kind = "tool")

\* This step is a result of the tool dispatcher reaching the session.
SentResult(l) == Len(ToolResults(loops'[l])) = Len(ToolResults(loops[l])) + 1

\* The Receive pipeline of r is still consuming: it awaits a response, a
\* POST, or a send.
Consuming(r) == r.recv_pc \in {"in_turn", "post", "send"}

\* C6: for a call of an unknown tool the dispatcher makes no external call
\* and raises nothing, the result sent to the session is the fixed fallback
\* string, and Receive goes on with the next call or response.
C6_UnknownTool ==
    [][\A l \in Loops :
        LET r == loops'[l] IN
        /\ (r.recv_pc \in {"post", "send"} /\ Head(r.calls).name \notin KnownTools) =>
              /\ r.recv_pc = "send"
              /\ r.outcome = None
              /\ r.result = <<"Verktyget ar inte tillgangligt.">>
        /\ (SentResult(l) /\ Head(loops[l].calls).name \notin KnownTools) =>
              /\ r.sent[Len(r.sent)] =
                     [kind |-> "tool",
                      input |-> <<"Verktygsresultat for ", Head(loops[l].calls).name, ": ",
                                  "Verktyget ar inte tillgangligt.">>,
                      end_of_turn |-> TRUE]
              /\ Consuming(r)]_vars

\* After a web_search, the fallback result of a play_music call has been
\* sent and Receive awaits the next response.
C6_Witness ==
    \E l \in Loops :
        /\ Len(ToolResults(loops[l])) = 2
        /\ loops[l].sent[Len(loops[l].sent)].input =
               <<"Verktygsresultat for ", "play_music", ": ", "Verktyget ar inte tillgangligt.">>
        /\ loops[l].sent[Len(loops[l].sent) - 1].input[2] = "web_search"
        /\ loops[l].recv_pc = "in_turn"

\* client.post of the current call of r has raised.
PostRaised(r) == r.outcome # None /\ r.outcome[1].raised

\* C7: when the POST of control_smart_home fails with a transport error or
\* times out, nothing is raised: the result is a failure string embedding
\* the error text, it is sent to the session, and Receive keeps consuming.
C7_TransportFailureRecovered ==
    [][\A l \in Loops :
        LET r == loops'[l] IN
        /\ (r.recv_pc # "cancelled" /\ PostRaised(r) /\ loops[l].recv_pc = "post") =>
              /\ r.recv_pc = "send"
              /\ r.result = <<"Fel vid verktygsanrop: ", r.outcome[1].error>>
              /\ r.on_error_log = loops[l].on_error_log
        /\ (SentResult(l) /\ PostRaised(loops[l])) =>
              /\ r.sent[Len(r.sent)] =
                     [kind |-> "tool",
                      input |-> <<"Verktygsresultat for ", "control_smart_home", ": ",
                                  "Fel vid verktygsanrop: ", loops[l].outcome[1].error>>,
                      end_of_turn |-> TRUE]
              /\ Consuming(r)]_vars

\* The failure string of a timed-out POST has been sent, and Receive has
\* gone on to the next call of the batch.
C7_Witness ==
    \E l \in Loops :
        /\ Len(ToolResults(loops[l])) = 1
        /\ loops[l].sent[Len(loops[l].sent)].input =
               <<"Verktygsresultat for ", "control_smart_home", ": ",
                 "Fel vid verktygsanrop: ", "ReadTimeout">>
        /\ loops[l].recv_pc = "send"
        /\ loops[l].calls_dispatched = 2

\* C8 (as claimed): when the device control service answers with an HTTP
\* error status or with success = false, the result is a failure string,
\* never the success string.
C8_NonSuccessIsFailure ==
    \A l \in Loops :
        (/\ loops[l].recv_pc = "send"
         /\ loops[l].outcome # None
         /\ ~loops[l].outcome[1].raised
         /\ \/ loops[l].outcome[1].response.status_code # 200
            \/ ~loops[l].outcome[1].response.success)
        => loops[l].result[1] # "Klart! Enheten har "

\* C9 (as claimed): every function call Receive has received is dispatched
\* exactly once and gets exactly one result sent to the session: when
\* Receive awaits the next response or has ended, no call is left out.
C9_OneResultPerCall ==
    \A l \in Loops :
        (loops[l].recv_pc \in {"in_turn", "done"}) =>
            /\ loops[l].calls_dispatched = loops[l].calls_received
            /\ Len(ToolResults(loops[l])) = loops[l].calls_received

\* The controller holds a loop whose run() has not ended.
SessionActive == audio_loop # None /\ loops[audio_loop[1]].run \notin {"done", "failed"}

\* This step is the handling of the named command.
Handled(name) == env'.cmds = env.cmds + 1 /\ env'.cmd = name

\* C10: start while a session is active tells the caller it is already
\* running, creates no loop and no session, and leaves the existing loop,
\* its task, its queues and its flags unchanged.
C10_StartWhileActive ==
    [][(Handled("start_audio") /\ SessionActive) =>
        /\ sio_out' = <<"status", "Already running">>
        /\ UNCHANGED <<audio_loop, loop_task, loops>>]_vars

\* A start was refused while the session of the first loop is open and its
\* tasks run; no second loop exists.
C10_Witness ==
    /\ env.cmd = "start_audio" /\ env.cmds = 2
    /\ sio_out = <<"status", "Already running">>
    /\ audio_loop = Some(1)
    /\ loops[1].run = "group" /\ loops[1].session = "open"
    /\ \A l \in Loops : l # 1 => loops[l].run = "none"

\* The loop l has an open remote session and pipelines that run.
Live(l) ==
    /\ loops[l].session = "open"
    /\ loops[l].run = "group"
    /\ \/ ~SendEnded(loops[l]) \/ ~ListenEnded(loops[l])
       \/ ~ReceiveEnded(loops[l]) \/ ~PlayEnded(loops[l])

\* C11 (as claimed): at any time at most one audio loop has an open remote
\* session and running pipelines, whatever commands were given; a start after
\* a stop does not run alongside the pipelines of the previous session.
C11_AtMostOneLiveSession ==
    Cardinality({l \in Loops : Live(l)}) <= 1

\* The controller holds a loop whose remote session is open.
Connected == audio_loop # None /\ loops[audio_loop[1]].session = "open"

\* C12 (as claimed): a sendText with a non-empty text, given while no
\* session is active, reports the error Not connected and sends nothing to any
\* session; given while a session is active it is forwarded to that session.
C12_SendTextNeedsSession ==
    [][(Handled("user_input") /\ env'.text # <<>>) =>
        IF Connected
        THEN loops'[audio_loop[1]].text_sends = loops[audio_loop[1]].text_sends + 1
        ELSE /\ sio_out' = <<"error", "Not connected">>
             /\ UNCHANGED loops]_vars

\* C13: once the stop event of a loop is set no step clears it, stop() on a
\* loop that is already stopped changes nothing, and a stop command given
\* when the controller holds no loop (as after a stop) changes no state and
\* emits nothing.
C13_StopIrreversible ==
    [][/\ \A l \in Loops :
            /\ loops[l].stop_event => loops'[l].stop_event
            /\ stop(loops[l]).stop_event
            /\ stop(stop(loops[l])) = stop(loops[l])
       /\ (Handled("stop_audio") /\ audio_loop = None) =>
            /\ UNCHANGED <<audio_loop, loop_task, loops>>
            /\ sio_out' = None]_vars

\* A second stop command in a row has been handled: the first loop is
\* stopped and the handler emitted nothing.
C13_Witness ==
    /\ env.cmds = 3 /\ env.cmd = "stop_audio"
    /\ sio_out = None /\ audio_loop = None
    /\ loops[1].stop_event /\ Created(1)
    /\ \A l \in Loops : l # 1 => ~Created(l)

\* C14 (as claimed): once the stop event of a loop is set, each of Capture,
\* Playback and Receive finishes at most the iteration in progress: a step
\* that enqueues one more captured frame, writes one more frame to the
\* output device, or processes one more remote event is the last of its
\* pipeline, which has left its loop after it.
C14_StopWithinOneIteration ==
    [][\A l \in Loops :
        loops[l].stop_event =>
            /\ Len(loops'[l].enqueued) > Len(loops[l].enqueued) => ListenEnded(loops'[l])
            /\ Len(loops'[l].played) > Len(loops[l].played) => PlayEnded(loops'[l])
            /\ loops'[l].responses > loops[l].responses => ReceiveEnded(loops'[l])]_vars

\* C15 (as claimed): once a running session is stopped then, under fair
\* scheduling, its pipelines end, the pipeline group completes, the remote
\* session is closed and run() returns, even if the remote endpoint sends
\* nothing more and the outbound queue stays empty.
C15_TerminationAfterStop ==
    \A l \in Loops :
        (loops[l].stop_event /\ loops[l].run = "group")
            ~> (task_done(l) /\ loops[l].session = "closed")

\* r with the pause flag the other way round
Flip(r) == [r EXCEPT !.paused = ~@]

\* Every step that Send, Receive with the tool dispatcher, and Playback can
\* take from r does to r with the flag flipped what it does to r.
PauseBlind(r) ==
    /\ (r.send_pc = "get" /\ r.out_queue # <<>>) => send_get(Flip(r)) = Flip(send_get(r))
    /\ r.send_pc = "sending" =>
          /\ send_done(Flip(r)) = Flip(send_done(r))
          /\ send_failed(Flip(r)) = Flip(send_failed(r))
    /\ r.recv_pc = "new" => receive_loop(Flip(r)) = Flip(receive_loop(r))
    /\ r.recv_pc = "in_turn" =>
          /\ \A response \in Responses(env.max.responses, Some(env.audio + 1)) :
                handle_response(Flip(r), response) = Flip(handle_response(r, response))
          /\ receive_loop(turn_end(Flip(r))) = Flip(receive_loop(turn_end(r)))
          /\ receive_failed(Flip(r), "ConnectionClosed") =
                Flip(receive_failed(r, "ConnectionClosed"))
    /\ r.recv_pc = "post" =>
          \A outcome \in PostOutcomes(Head(r.calls)) :
              post_returns(Flip(r), outcome) = Flip(post_returns(r, outcome))
    /\ r.recv_pc = "send" => result_sent(Flip(r)) = Flip(result_sent(r))
    /\ r.play_pc = "opening" =>
          /\ output_opened(Flip(r)) = Flip(output_opened(r))
          /\ output_open_failed(Flip(r)) = Flip(output_open_failed(r))
    /\ r.play_pc = "wait" =>
          /\ r.audio_in_queue # <<>> => play_get(Flip(r)) = Flip(play_get(r))
          /\ play_timeout(Flip(r)) = Flip(play_timeout(r))
    /\ r.play_pc = "write" =>
          /\ play_written(Flip(r)) = Flip(play_written(r))
          /\ play_write_failed(Flip(r)) = Flip(play_write_failed(r))

\* C16: pause and resume change nothing but the pause flag of the loop the
\* controller holds, only the start, pause and resume commands set the flag,
\* and what Send, Receive and Playback do does not depend on the flag.
C16_PauseAffectsOnlyCapture ==
    [][/\ (Handled("pause_audio") /\ audio_loop # None) =>
            /\ loops' = [loops EXCEPT ![audio_loop[1]].paused = TRUE]
            /\ UNCHANGED <<audio_loop, loop_task>>
       /\ (Handled("resume_audio") /\ audio_loop # None) =>
            /\ loops' = [loops EXCEPT ![audio_loop[1]].paused = FALSE]
            /\ UNCHANGED <<audio_loop, loop_task>>
       /\ \A l \in Loops :
            /\ loops'[l].paused # loops[l].paused =>
                  \/ Handled("pause_audio") \/ Handled("resume_audio")
                  \/ Handled("start_audio")
            /\ PauseBlind(loops[l])]_vars

\* The microphone is muted while a captured frame waits on the outbound
\* queue for Send, and Receive is in a turn.
C16_Witness ==
    \E l \in Loops :
        /\ env.cmd = "pause_audio" /\ loops[l].paused
        /\ loops[l].send_pc = "get" /\ loops[l].out_queue # <<>>
        /\ loops[l].recv_pc = "in_turn"

\* The rms of the frame that this step of Capture has read and processed.
FrameRms(l) == loops'[l].enqueued[Len(loops'[l].enqueued)].rms

\* This step is Capture reading a frame and running the VAD on it.
VadStep(l) == ReadFrame(l) /\ Len(loops'[l].enqueued) = Len(loops[l].enqueued) + 1

\* C17 (as claimed): with isUserSpeaking true, a sub-threshold frame keeps
\* it true while the silence has lasted less than D, and makes it false when
\* the silence has lasted at least D; an above-threshold frame clears the
\* silence timer.
C17_VadHysteresis ==
    [][\A l \in Loops :
        (VadStep(l) /\ loops[l].is_user_speaking) =>
            IF FrameRms(l) > VAD_THRESHOLD
            THEN loops'[l].is_user_speaking /\ loops'[l].silence_start_time = None
            ELSE IF loops[l].silence_start_time = None
            THEN loops'[l].is_user_speaking /\ loops'[l].silence_start_time = Some(now)
            ELSE IF now - loops[l].silence_start_time[1] < SILENCE_DURATION
            THEN loops'[l].is_user_speaking
                 /\ loops'[l].silence_start_time = loops[l].silence_start_time
            ELSE ~loops'[l].is_user_speaking]_vars

\* The lifecycle state of the session of the loop r.
Phase(r) ==
    IF r.run = "none" THEN "Idle"
    ELSE IF r.run \in {"done", "failed"} THEN "Terminated"
    ELSE IF r.stop_event THEN "Stopping"
    ELSE IF r.run \in {"scheduled", "connecting", "greeting"} THEN "Connecting"
    ELSE IF r.paused THEN "Paused"
    ELSE "Active"

\* C18 (as claimed): a session becomes Paused only from Active, never from
\* Idle or Connecting, and the controller accepts a new start only when every
\* earlier session went through Stopping and has reached Terminated.
C18_LifecycleOrder ==
    [][/\ \A l \in Loops :
            (Phase(loops'[l]) = "Paused" /\ Phase(loops[l]) # "Paused") =>
                Phase(loops[l]) = "Active"
       /\ (Handled("start_audio") /\ sio_out' = <<"status", "Alice Started">>) =>
            \A l \in Loops :
                Created(l) => (loops[l].stop_event /\ Phase(loops[l]) = "Terminated")]_vars

IsPrefix(a, b) == Len(a) <= Len(b) /\ SubSeq(b, 1, Len(a)) = a

Increasing(q) == \A i, j \in 1..Len(q) : i < j => q[i] < q[j]

OptSeq(o) == IF o = None THEN <<>> ELSE <<o[1]>>

AudioSent(r) == SelectSeq(r.sent, LAMBDA m : m.kind = "audio")

\* The frames the session has received from Send, in order.
FramesSent(r) == [i \in 1..Len(AudioSent(r)) |-> AudioSent(r)[i].input]

\* The received audio frames that are written, being written or queued.
InPlayback(r) == r.played \o OptSeq(r.play_data) \o r.audio_in_queue

Range(q) == {q[i] : i \in 1..Len(q)}

\* Both queues of r are first in, first out: what Send has forwarded, is
\* forwarding and has still queued is what Capture enqueued, in that order,
\* each frame tagged not end of turn; what Playback has written, is writing
\* and has still queued are among the n received frames, in arrival order,
\* none twice.
FifoOrder(r, n) ==
    /\ FramesSent(r) \o OptSeq(r.send_msg) \o r.out_queue = r.enqueued
    /\ IsPrefix(FramesSent(r), r.enqueued)
    /\ \A i \in 1..Len(AudioSent(r)) : ~AudioSent(r)[i].end_of_turn
    /\ Increasing(InPlayback(r))
    /\ Range(InPlayback(r)) \subseteq 1..n

\* This step drops received frames: they will not be written.
Dropped(l) == Range(InPlayback(loops[l])) \ Range(InPlayback(loops'[l]))

\* This step is a write to the output device that raises.
WriteRaised(l) ==
    /\ loops[l].play_pc = "write"
    /\ loops'[l].played = loops[l].played
    /\ Dropped(l) = {loops[l].play_data[1]}

StaysPaused(l) == loops[l].paused /\ loops'[l].paused

\* C20: while the pause flag stays set, a Capture that has no read in
\* flight begins none, enqueues nothing and leaves the VAD state unchanged;
\* a read in flight when the flag was set yields at most one frame, after
\* which no read is in flight; and a session started muted has enqueued
\* nothing as long as no command was given.
C20_PausedCaptureIdle ==
    [][\A l \in Loops :
        /\ (StaysPaused(l) /\ loops[l].listen_pc # "read") =>
              /\ loops'[l].listen_pc # "read"
              /\ loops'[l].enqueued = loops[l].enqueued
              /\ Len(loops'[l].out_queue) <= Len(loops[l].out_queue)
              /\ loops'[l].is_user_speaking = loops[l].is_user_speaking
              /\ loops'[l].silence_start_time = loops[l].silence_start_time
        /\ (StaysPaused(l) /\ loops'[l].enqueued # loops[l].enqueued) =>
              /\ loops[l].listen_pc = "read"
              /\ Len(loops'[l].enqueued) = Len(loops[l].enqueued) + 1
              /\ loops'[l].listen_pc # "read"
        /\ (env.cmds = 0 /\ loops[l].paused) =>
              /\ loops[l].enqueued = <<>>
              /\ loops[l].listen_pc # "read"]_vars

\* A session started muted has opened the microphone and idles in its pause
\* wait: no frame was read or enqueued.
C20_Witness ==
    \E l \in Loops :
        /\ env.cmds = 0 /\ loops[l].paused
        /\ loops[l].in_stream = "open" /\ loops[l].listen_pc = "sleep"
        /\ loops[l].enqueued = <<>> /\ env.frames = 0

\* Response audio of r is still being produced: frames wait on the inbound
\* queue, or Playback is writing one to the output device.
Producing(r) == r.audio_in_queue # <<>> \/ r.play_pc = "write"

\* C21 (as claimed): a frame Capture reads while response audio is still
\* being produced (the inbound queue is non-empty or Playback is writing a
\* frame) is not put on the outbound queue.
C21_EchoCoversPlayback ==
    [][\A l \in Loops :
        (ReadFrame(l) /\ Producing(loops[l])) =>
            /\ loops'[l].enqueued = loops[l].enqueued
            /\ loops'[l].out_queue = loops[l].out_queue]_vars

\* This step is the iteration of the remote event stream of l raising.
StreamRaised(l) ==
    /\ loops[l].recv_pc = "in_turn" /\ loops'[l].recv_pc # "in_turn"
    /\ env'.faults = env.faults + 1

\* The calls of the error callback of r that report a remote-session error.
SessionErrors(r) == SelectSeq(r.on_error_log, LAMBDA e : e = "ConnectionClosed")

\* C22: when iterating the remote event stream raises, on_error is called
\* once with the error in that step and Receive ends; the step leaves the
\* other three pipelines, the pipeline group and the session as they are;
\* Receive never runs again and reports no second error; and the group
\* cancels its tasks only after Send or Capture has failed.
C22_ReceiveFailure ==
    [][\A l \in Loops :
        /\ StreamRaised(l) =>
              /\ loops'[l].on_error_log = Append(loops[l].on_error_log, "ConnectionClosed")
              /\ loops'[l].recv_pc = "done"
              /\ loops'[l].send_pc = loops[l].send_pc
              /\ loops'[l].listen_pc = loops[l].listen_pc
              /\ loops'[l].play_pc = loops[l].play_pc
              /\ loops'[l].cancelling = loops[l].cancelling
              /\ loops'[l].session = loops[l].session
              /\ loops'[l].run = loops[l].run
        /\ loops[l].recv_pc = "done" =>
              /\ loops'[l].recv_pc = "done"
              /\ SessionErrors(loops'[l]) = SessionErrors(loops[l])
        /\ Len(SessionErrors(loops'[l])) <= 1
        /\ (loops'[l].cancelling /\ ~loops[l].cancelling) => TaskFailed(loops[l])]_vars

\* Receive has ended on a reported stream error while the session is open,
\* the group is not cancelling, Capture has a read in flight, Playback waits
\* for a frame and Send has forwarded a captured frame.
C22_Witness ==
    \E l \in Loops :
        /\ loops[l].recv_pc = "done"
        /\ loops[l].on_error_log = <<"ConnectionClosed">>
        /\ Running(l) /\ loops[l].session = "open"
        /\ loops[l].listen_pc = "read" /\ loops[l].play_pc = "wait"
        /\ loops[l].send_pc = "get" /\ FramesSent(loops[l]) # <<>>

\* This step is a read of the input device of l raising.
ReadRaised(l) ==
    /\ loops[l].listen_pc = "read" /\ loops'[l].listen_pc # "read"
    /\ env'.faults = env.faults + 1

\* C23 (as claimed): when a read of the input device raises, Capture calls
\* the error callback once, enqueues nothing, leaves the VAD state unchanged,
\* and waits for the backoff instead of ending.
C23_ReadFailureTransient ==
    [][\A l \in Loops :
        ReadRaised(l) =>
            /\ Len(loops'[l].on_error_log) = Len(loops[l].on_error_log) + 1
            /\ loops'[l].enqueued = loops[l].enqueued
            /\ loops'[l].out_queue = loops[l].out_queue
            /\ loops'[l].is_user_speaking = loops[l].is_user_speaking
            /\ loops'[l].silence_start_time = loops[l].silence_start_time
            /\ loops'[l].listen_pc = "sleep"]_vars

\* This step is Capture of l failing to get its input device: the lookup of
\* the default device or pya.open raises.
InputOpenRaised(l) ==
    /\ loops[l].listen_pc \in {"new", "opening"}
    /\ loops'[l].listen_pc \notin {"new", "opening", "cancelled"}
    /\ env'.faults = env.faults + 1

\* This step is Playback of l failing to open its output device.
OutputOpenRaised(l) ==
    /\ loops[l].play_pc = "opening"
    /\ loops'[l].play_pc \notin {"opening", "cancelled"}
    /\ env'.faults = env.faults + 1

\* The step leaves the session, run() and the group of l as they are.
GroupUntouched(l) ==
    /\ loops'[l].session = loops[l].session
    /\ loops'[l].run = loops[l].run
    /\ loops'[l].cancelling = loops[l].cancelling

\* C24 (as claimed): when the input device cannot be opened Capture ends
\* at once, having enqueued nothing, and when the output device cannot be
\* opened Playback ends at once, having dequeued nothing; the step leaves the
\* other three pipelines and the session as they are, and the group never
\* cancels its tasks because of it.
C24_OpenFailureLocal ==
    [][\A l \in Loops :
        /\ InputOpenRaised(l) =>
              /\ loops'[l].listen_pc = "done"
              /\ loops'[l].enqueued = <<>> /\ loops'[l].out_queue = <<>>
              /\ loops'[l].send_pc = loops[l].send_pc
              /\ loops'[l].recv_pc = loops[l].recv_pc
              /\ loops'[l].play_pc = loops[l].play_pc
              /\ GroupUntouched(l)
        /\ OutputOpenRaised(l) =>
              /\ loops'[l].play_pc = "done"
              /\ loops'[l].played = <<>> /\ loops'[l].play_data = None
              /\ loops'[l].audio_in_queue = loops[l].audio_in_queue
              /\ loops'[l].send_pc = loops[l].send_pc
              /\ loops'[l].recv_pc = loops[l].recv_pc
              /\ loops'[l].listen_pc = loops[l].listen_pc
              /\ GroupUntouched(l)
        /\ (loops'[l].cancelling /\ ~loops[l].cancelling) =>
              loops[l].listen_pc # "failed"]_vars

\* This step is a send of the Send pipeline of l raising.
SendRaised(l) == loops[l].send_pc = "sending" /\ loops'[l].send_pc = "failed"

\* This step is pya.open of the input device of l raising.
InputPyaOpenRaised(l) == InputOpenRaised(l) /\ loops[l].listen_pc = "opening"

\* C25 (as claimed): a failure to open the input device, a failure to open
\* the output device, a remote-session failure in Receive and one in Send
\* each make the pipeline that meets it call the error callback.
C25_ErrorsSurfaced ==
    [][\A l \in Loops :
        (\/ InputPyaOpenRaised(l) \/ OutputOpenRaised(l)
         \/ StreamRaised(l) \/ SendRaised(l)) =>
            Len(loops'[l].on_error_log) > Len(loops[l].on_error_log)]_vars

\* C26 (as claimed): whenever Capture or Playback has ended after opening
\* its device stream, because of the stop signal or because the group
\* cancelled it, that stream is closed.
C26_DeviceHandlesReleased ==
    \A l \in Loops :
        /\ (ListenEnded(loops[l]) /\ loops[l].in_stream # "none") =>
              loops[l].in_stream = "closed"
        /\ (PlayEnded(loops[l]) /\ loops[l].out_stream # "none") =>
              loops[l].out_stream = "closed"

\* The tool-call observation events among the sink events since Receive
\* took its latest response.
ToolCallEvents(r) == SelectSeq(r.emitted, LAMBDA e : e.ev = "tool_call")

Names(q) == [i \in 1..Len(q) |-> q[i].name]

\* The names in the tool results r has sent, in order.
ResultNames(r) == [i \in 1..Len(ToolResults(r)) |-> ToolResults(r)[i].input[2]]

\* While the dispatcher of r works on the batch of the latest response, at
\* its k-th call: the calls left are the batch from the k-th on, the
\* observation events emitted are those of the first k calls, in batch
\* order, and the results sent for the batch are those of the first k - 1.
BatchInOrder(r) ==
    r.recv_pc \in {"post", "send"} =>
        LET batch == r.response[1].tool_call
            k == Len(batch) - Len(r.calls) + 1
            before == r.calls_received - Len(batch)
        IN  /\ k \in 1..Len(batch)
            /\ r.calls = SubSeq(batch, k, Len(batch))
            /\ Names(ToolCallEvents(r)) = Names(SubSeq(batch, 1, k))
            /\ Len(ToolResults(r)) = before + k - 1
            /\ SubSeq(ResultNames(r), before + 1, before + k - 1) =
                   Names(SubSeq(batch, 1, k - 1))

\* This step emits the tool-call observation event of one more call of l.
Dispatches(l) == loops'[l].calls_dispatched = loops[l].calls_dispatched + 1

\* Every step that Capture, Send or Playback of l is waiting to take can be
\* taken.
OthersCanStep(l) ==
    /\ loops[l].listen_pc = "new" => ENABLED ListenStart(l)
    /\ loops[l].listen_pc = "opening" => ENABLED InputOpened(l)
    /\ (loops[l].listen_pc = "read" /\ env.frames < env.max.frames) => ENABLED FrameRead(l)
    /\ (loops[l].send_pc = "get" /\ loops[l].out_queue # <<>>) => ENABLED SendGet(l)
    /\ loops[l].send_pc = "sending" => ENABLED SendDone(l)
    /\ loops[l].play_pc = "opening" => ENABLED OutputOpened(l)
    /\ (loops[l].play_pc = "wait" /\ loops[l].audio_in_queue # <<>>) => ENABLED PlayGet(l)
    /\ loops[l].play_pc = "write" => ENABLED PlayWritten(l)

\* C27: the calls of a batch are handled one at a time in batch order: the
\* observation event of a call is emitted only when the results of all
\* earlier calls have been sent, one event per step; Receive takes a
\* response only when every call received so far is answered; and while the
\* dispatcher waits for the device control service or for a send, every
\* step Capture, Send or Playback is waiting to take can be taken.
C27_SequentialDispatch ==
    [][\A l \in Loops :
        /\ BatchInOrder(loops'[l])
        /\ loops'[l].calls_dispatched \in
               {loops[l].calls_dispatched, loops[l].calls_dispatched + 1}
        /\ Dispatches(l) =>
               Len(ToolResults(loops'[l])) = loops'[l].calls_dispatched - 1
        /\ TookResponse(l) =>
               /\ loops[l].recv_pc = "in_turn"
               /\ Len(ToolResults(loops[l])) = loops[l].calls_received
        /\ loops[l].recv_pc \in {"post", "send"} => OthersCanStep(l)]_vars

\* The dispatcher waits for the device control service on the second call
\* of the second batch, after three results, while Send is forwarding a
\* captured frame and Playback is writing a received one.
C27_Witness ==
    \E l \in Loops :
        /\ loops[l].recv_pc = "post"
        /\ loops[l].responses = 2 /\ Len(loops[l].calls) = 1
        /\ loops[l].calls_dispatched = 4 /\ Len(ToolResults(loops[l])) = 3
        /\ loops[l].send_pc = "sending" /\ loops[l].play_pc = "write"

\* The calls of session.send on the session of r that have not returned:
\* the start message of run(), the frame of Send, the tool result of
\* Receive, and the texts of user_input.
SendsInProgress(r) ==
    (IF r.run = "greeting" THEN 1 ELSE 0)
    + (IF r.send_pc = "sending" THEN 1 ELSE 0)
    + (IF r.recv_pc = "send" THEN 1 ELSE 0)
    + r.text_sends

\* C28 (as claimed): at any time at most one send on the remote session of
\* a loop is in progress, counting the frames of Send, the tool results of
\* Receive, the texts of sendText and the initial message.
C28_SingleSender == \A l \in Loops : SendsInProgress(loops[l]) <= 1

\* The pipelines of r have been launched.
Launched(r) ==
    r.send_pc # "none" \/ r.listen_pc # "none" \/ r.recv_pc # "none" \/ r.play_pc # "none"

\* A send other than that of the start message is in progress on r.
OtherSendInProgress(r) ==
    r.send_pc = "sending" \/ r.recv_pc = "send" \/ r.text_sends > 0

\* C29 (as claimed): the start message, the default greeting when the
\* caller gives none, is sent as an end-of-turn input before the pipelines
\* are launched, and it is the first input of the session: no send of an
\* audio frame, a tool result or a text is made on the session before the
\* start message has been sent.
C29_InitialMessageFirst ==
    \A l \in Loops :
        /\ Launched(loops[l]) => loops[l].sent # <<>>
        /\ loops[l].sent # <<>> => loops[l].sent[1] = start_input(None)
        /\ start_input(None).end_of_turn /\ start_input(None).input = DefaultGreeting
        /\ start_input(Some(<<"hej">>)).input = <<"hej">>
        /\ OtherSendInProgress(loops[l]) => loops[l].sent # <<>>

\* Of the first k received frames, those Playback can still write: the
\* frame it has dequeued and the frames on the inbound queue.
Pending(r, k) == {f \in Range(OptSeq(r.play_data) \o r.audio_in_queue) : f <= k}

\* Of the first k received frames, those written to the output device and
\* passed to on_audio_data.
Written(r, k) == {f \in Range(r.played) : f <= k}

\* C30: right after an interruption, the only frame received so far that
\* Playback can still write is the one it had already dequeued; and in every
\* step, for every k, no frame among the first k received becomes pending
\* again, and a frame is written only if it was pending and is pending no
\* more.  Hence at most one frame received before an interruption is
\* written and passed to the observer after it.
C30_BoundedLeak ==
    [][\A l \in Loops :
        /\ Interrupts(l) =>
              /\ Pending(loops'[l], env'.audio) = Range(OptSeq(loops[l].play_data))
              /\ Cardinality(Pending(loops'[l], env'.audio)) <= 1
        /\ \A k \in 0..env.audio :
              /\ Pending(loops'[l], k) \subseteq Pending(loops[l], k)
              /\ (Written(loops'[l], k) \ Written(loops[l], k)) \subseteq
                     (Pending(loops[l], k) \ Pending(loops'[l], k))]_vars

\* An interruption has just removed the second and third received frames
\* while Playback is writing the first, which it had dequeued before.
C30_Witness ==
    \E l \in Loops :
        /\ env.audio = 3 /\ loops[l].played = <<>>
        /\ TranscriptionsBy(loops[l], "User") # <<>>
        /\ loops[l].audio_in_queue = <<>>
        /\ loops[l].play_pc = "write" /\ loops[l].play_data = Some(1)

\* The remote endpoint can still end a turn.
TurnsLeft == TurnsUpTo(MaxLoops) < env.max.turn_ends

\* C31 (as claimed): whenever the speaking flag of a loop is set, it is
\* eventually false again, as long as the remote endpoint ends its turns,
\* also when the event stream raises in the middle of a turn.
C31_SpeakingEventuallyReset ==
    \A l \in Loops :
        (loops[l].is_speaking /\ TurnsLeft) ~> ~loops[l].is_speaking

=============================================================================
